---- MODULE Spec2Model ----
(***************************************************************************)
(* A model of server.py: the Tushare call wrapper (_call_tushare), the     *)
(* six-hour listing cache (_get_stock_basic_all) and the tool handlers     *)
(* (tushare_query, search_stocks, stock_basic, daily), run as cooperative  *)
(* asyncio tasks that suspend only at the HTTP POST.                       *)
(*                                                                         *)
(* Encoding.  Optional[T] is a sequence of length 0 (None) or 1.  Python   *)
(* strings are sequences of ASCII codes, so strip, lower, `in` and `<`     *)
(* are computed.  A JSON value is a record [j, v]: j its type, v its       *)
(* payload.  A Python call either returns or raises: [exc, ret].           *)
(***************************************************************************)
EXTENDS Integers, Sequences, FiniteSets, TLC

VARIABLES
    env_token,   \* os.environ.get("TUSHARE_TOKEN"): Optional[str]
    clock,       \* the value time.time() returns
    cache,       \* _STOCK_BASIC_CACHE: Optional[list of rows]
    cache_ts,    \* _STOCK_BASIC_CACHE_TS: Optional[number]
    tasks,       \* one record per tool invocation (an asyncio task)
    cache_src,   \* history: the successful refresh that completed last
    w_in,        \* SpecWrapper: the upstream response under test
    w_out        \* SpecWrapper: what _call_tushare did with it

vars == <<env_token, clock, cache, cache_ts, tasks, cache_src, w_in, w_out>>

(***************************************************************************)
(* Bounds of the model.                                                    *)
(***************************************************************************)
NumTasks == 2      \* concurrent tool invocations
MaxEpoch == 1      \* the clock runs to MaxEpoch cache lifetimes, and a bit
MaxFields == 2     \* SpecWrapper: longest fields list
MaxItems == 2      \* SpecWrapper: most items in a response

(***************************************************************************)
(* Program constants.                                                      *)
(***************************************************************************)
_STOCK_BASIC_CACHE_TTL == 6 * 3600
MAX_ROWS == 200

(***************************************************************************)
(* Optional values and call outcomes.                                      *)
(***************************************************************************)
None == <<>>
Some(x) == <<x>>
IsNone(o) == Len(o) = 0
Get(o) == o[1]

Raise(name) == [exc |-> Some(name), ret |-> None]
Return(x) == [exc |-> None, ret |-> Some(x)]
Raised(o) == ~IsNone(o.exc)

Min(a, b) == IF a <= b THEN a ELSE b

(***************************************************************************)
(* Python strings.                                                         *)
(***************************************************************************)
S_ts_code == <<116, 115, 95, 99, 111, 100, 101>>
S_name == <<110, 97, 109, 101>>
S_trade_date == <<116, 114, 97, 100, 101, 95, 100, 97, 116, 101>>
S_code == <<99, 111, 100, 101>>
S_msg == <<109, 115, 103>>
S_data == <<100, 97, 116, 97>>
S_fields == <<102, 105, 101, 108, 100, 115>>
S_items == <<105, 116, 101, 109, 115>>
S_None == <<78, 111, 110, 101>>
S_True == <<84, 114, 117, 101>>
S_False == <<70, 97, 108, 115, 101>>

\* str.strip() with no argument removes leading and trailing whitespace
\* (the ASCII whitespace characters are modelled).
IsSpace(c) == c \in {9, 10, 11, 12, 13, 28, 29, 30, 31, 32}

RECURSIVE lstrip(_)
lstrip(s) == IF Len(s) > 0 /\ IsSpace(Head(s)) THEN lstrip(Tail(s)) ELSE s

RECURSIVE rstrip(_)
rstrip(s) ==
    IF Len(s) > 0 /\ IsSpace(s[Len(s)]) THEN rstrip(SubSeq(s, 1, Len(s) - 1)) ELSE s

\* Mutant: the argument is used as passed.
strip_missing(s) == s

strip(s) == rstrip(lstrip(s))

\* (x or "") for an Optional[str] argument
OrEmpty(o) == IF IsNone(o) THEN <<>> ELSE Get(o)

\* str.lower() on ASCII
lower(s) == [i \in 1..Len(s) |-> IF s[i] \in 65..90 THEN s[i] + 32 ELSE s[i]]

\* a in b, for strings
Contains(a, b) ==
    \E k \in 0..(Len(b) - Len(a)) : \A i \in 1..Len(a) : b[k + i] = a[i]

\* a < b, for strings: lexicographic by code point
RECURSIVE StrLess(_, _)
StrLess(a, b) ==
    IF Len(b) = 0 THEN FALSE
    ELSE IF Len(a) = 0 THEN TRUE
    ELSE IF Head(a) # Head(b) THEN Head(a) < Head(b)
    ELSE StrLess(Tail(a), Tail(b))

RECURSIVE Digits(_)
Digits(n) == IF n < 10 THEN <<48 + n>> ELSE Digits(n \div 10) \o <<48 + (n % 10)>>

(***************************************************************************)
(* JSON values as resp.json() returns them.                                *)
(***************************************************************************)
JNull == [j |-> "null", v |-> <<>>]
JBool(b) == [j |-> "bool", v |-> b]
JNum(n) == [j |-> "number", v |-> n]
JStr(s) == [j |-> "string", v |-> s]
JArr(xs) == [j |-> "array", v |-> xs]
JObj(pairs) == [j |-> "object", v |-> pairs]   \* <<key string, value>> pairs in order

IsDict(x) == x.j = "object"

\* bool(x)
Truthy(x) ==
    CASE x.j = "null" -> FALSE
      [] x.j = "bool" -> x.v
      [] x.j = "number" -> x.v # 0
      [] OTHER -> Len(x.v) > 0

\* d.get(key, default) on a dict obtained from JSON
DictGet(d, key, default) ==
    IF \E i \in 1..Len(d.v) : d.v[i][1] = key
    THEN d.v[CHOOSE i \in 1..Len(d.v) : d.v[i][1] = key][2]
    ELSE default

\* x == 0 (a bool is an int in Python)
EqualsZero(x) == (x.j = "number" /\ x.v = 0) \/ (x.j = "bool" /\ x.v = FALSE)

\* iter(x) succeeds on str, list and dict
Iterable(x) == x.j \in {"string", "array", "object"}

Iter(x) ==
    CASE x.j = "array" -> x.v
      [] x.j = "string" -> [i \in 1..Len(x.v) |-> JStr(<<x.v[i]>>)]
      [] x.j = "object" -> [i \in 1..Len(x.v) |-> JStr(x.v[i][1])]

\* hash(x) succeeds on None, bool, numbers and str
Hashable(x) == x.j \notin {"array", "object"}

\* str(x), for the scalar values
Str(x) ==
    CASE x.j = "string" -> x.v
      [] x.j = "null" -> S_None
      [] x.j = "bool" -> IF x.v THEN S_True ELSE S_False
      [] x.j = "number" -> IF x.v < 0 THEN <<45>> \o Digits(-x.v) ELSE Digits(x.v)

(***************************************************************************)
(* The response normalizer: dict(zip(fields_list, row)).                   *)
(***************************************************************************)
\* Mutant: the last pair is lost.
zip_drops_last(a, b) == [i \in 1..(Min(Len(a), Len(b)) - 1) |-> <<a[i], b[i]>>]

zip(a, b) == [i \in 1..Min(Len(a), Len(b)) |-> <<a[i], b[i]>>]

\* dict(pairs): the last pair with a key wins
dict(pairs) ==
    [k \in {pairs[i][1] : i \in DOMAIN pairs} |->
        LET last == CHOOSE i \in DOMAIN pairs :
                        /\ pairs[i][1] = k
                        /\ \A m \in DOMAIN pairs : pairs[m][1] = k => m <= i
        IN  pairs[last][2]]

\* row.get(key, default) on a row built by dict(zip(...))
RowGet(row, key, default) == IF key \in DOMAIN row THEN row[key] ELSE default

\* dict(zip(fields_list, row)) as Python evaluates it: zip takes iter() of
\* both arguments, dict hashes every key.
MakeRow(fields_list, row) ==
    IF ~Iterable(fields_list) \/ ~Iterable(row) THEN Raise("TypeError")
    ELSE LET pairs == zip(Iter(fields_list), Iter(row))
         IN  IF \E i \in DOMAIN pairs : ~Hashable(pairs[i][1])
             THEN Raise("TypeError")
             ELSE Return(dict(pairs))

\* [dict(zip(fields_list, row)) for row in items]
MakeRows(fields_list, items) ==
    IF ~Iterable(items) THEN Raise("TypeError")
    ELSE LET its == Iter(items)
             made == [i \in 1..Len(its) |-> MakeRow(fields_list, its[i])]
         IN  IF \E i \in 1..Len(its) : Raised(made[i])
             THEN Raise("TypeError")
             ELSE Return([i \in 1..Len(its) |-> Get(made[i].ret)])

(***************************************************************************)
(* _call_tushare.                                                          *)
(***************************************************************************)
Envelope(error, api_name, fields, rows, raw) ==
    [error |-> error, api_name |-> api_name, fields |-> fields, rows |-> rows,
     raw |-> raw]

\* token_val = token or os.environ.get(TUSHARE_TOKEN_ENV)
TokenVal(token) ==
    IF ~IsNone(token) /\ Get(token) # "" THEN token ELSE env_token

\* Mutant: `token_val is None`, so an empty token is sent.
NoToken_is_none(token) == IsNone(TokenVal(token))

\* not token_val
NoToken(token) == IsNone(TokenVal(token)) \/ Get(TokenVal(token)) = ""

\* An error text: its category, and the detail the message embeds.
Err(kind, detail, text) == [kind |-> kind, detail |-> detail, text |-> text]

ConfigError(api_name) ==
    Envelope(Some(Err("config", "TUSHARE_TOKEN", <<>>)), api_name, None, <<>>, None)

\* f"Tushare 返回错误 code={code}, msg={msg}": the model keeps the code.
BusinessError(code) ==
    Err("business", code.j, IF Hashable(code) THEN Str(code) ELSE <<>>)

\* Lines 105-137: what follows a body that parsed.
HandleData(api_name, data) ==
    IF ~IsDict(data) THEN Raise("AttributeError")
    ELSE LET code == DictGet(data, S_code, JNull) IN
    IF ~EqualsZero(code)
    THEN Return(Envelope(Some(BusinessError(code)), api_name, None, <<>>, Some(data)))
    ELSE LET got == DictGet(data, S_data, JNull)
             d == IF Truthy(got) THEN got ELSE JObj(<<>>)
         IN
    IF ~IsDict(d) THEN Raise("AttributeError")
    ELSE LET gf == DictGet(d, S_fields, JArr(<<>>))
             fields_list == IF Truthy(gf) THEN gf ELSE JArr(<<>>)
             gi == DictGet(d, S_items, JArr(<<>>))
             items == IF Truthy(gi) THEN gi ELSE JArr(<<>>)
             made == MakeRows(fields_list, items)
         IN
    IF Raised(made) THEN made
    ELSE Return(Envelope(None, api_name, Some(fields_list), Get(made.ret), Some(data)))

\* Lines 78-137: the outcome of the POST decides the envelope.
HandleResponse(api_name, resp) ==
    CASE resp.transport = "timeout" ->
            Return(Envelope(Some(Err("timeout", ">8.0s", <<>>)), api_name, None, <<>>, None))
      [] resp.transport \in {"ConnectError", "HTTPStatusError", "JSONDecodeError"} ->
            Return(Envelope(Some(Err("network", resp.transport, <<>>)), api_name,
                            None, <<>>, None))
      [] resp.transport = "ok" -> HandleData(api_name, resp.body)

(***************************************************************************)
(* _get_stock_basic_all: the listing cache.                                *)
(***************************************************************************)
\* "ts_code,symbol,name,area,industry,market,exchange,list_date"
_STOCK_BASIC_FIELDS ==
    S_ts_code \o <<44, 115, 121, 109, 98, 111, 108, 44>> \o S_name
    \o <<44, 97, 114, 101, 97, 44, 105, 110, 100, 117, 115, 116, 114, 121, 44>>
    \o <<109, 97, 114, 107, 101, 116, 44, 101, 120, 99, 104, 97, 110, 103, 101, 44>>
    \o <<108, 105, 115, 116, 95, 100, 97, 116, 101>>

\* s.split(",")
RECURSIVE Split(_, _)
Split(s, sep) ==
    IF \E i \in 1..Len(s) : s[i] = sep
    THEN LET i == CHOOSE k \in 1..Len(s) : s[k] = sep /\ \A m \in 1..(k - 1) : s[m] # sep
         IN  <<SubSeq(s, 1, i - 1)>> \o Split(SubSeq(s, i + 1, Len(s)), sep)
    ELSE <<s>>

\* Mutant: the lifetime is taken in hours.
CacheFresh_hours(now) ==
    /\ ~IsNone(cache)
    /\ ~IsNone(cache_ts)
    /\ now - Get(cache_ts) < 6

\* Mutant: an entry exactly six hours old is still served.
CacheFresh_inclusive(now) ==
    /\ ~IsNone(cache)
    /\ ~IsNone(cache_ts)
    /\ now - Get(cache_ts) <= _STOCK_BASIC_CACHE_TTL

\* Lines 147-151: the freshness rule.
CacheFresh(now) ==
    /\ ~IsNone(cache)
    /\ ~IsNone(cache_ts)
    /\ now - Get(cache_ts) < _STOCK_BASIC_CACHE_TTL

\* Lines 156-162: the envelope of a cache hit.
CacheHit ==
    LET names == Split(_STOCK_BASIC_FIELDS, 44)
    IN  Envelope(None, "stock_basic",
                 Some(JArr([i \in 1..Len(names) |-> JStr(names[i])])),
                 Get(cache), None)

\* Mutant: the rows are stored whatever the envelope says.
CacheAfter_always(res, now) == [rows |-> Some(res.rows), ts |-> Some(now)]

\* Mutant: the timestamp of the first fetch is kept.
CacheAfter_first_ts(res, now) ==
    IF IsNone(res.error)
    THEN [rows |-> Some(res.rows), ts |-> IF IsNone(cache_ts) THEN Some(now) ELSE cache_ts]
    ELSE [rows |-> cache, ts |-> cache_ts]

\* Mutant: the timestamp is read when the refresh completes.
CacheAfter_completion(res, now) ==
    IF IsNone(res.error)
    THEN [rows |-> Some(res.rows), ts |-> Some(clock)]
    ELSE [rows |-> cache, ts |-> cache_ts]

\* Lines 171-181: the cache after a refresh that returned res.
CacheAfter(res, now) ==
    IF IsNone(res.error)
    THEN [rows |-> Some(res.rows), ts |-> Some(now)]
    ELSE [rows |-> cache, ts |-> cache_ts]

(***************************************************************************)
(* The tool handlers, from the wrapper's envelope to the tool's result.    *)
(***************************************************************************)
\* Lines 242-248: the rows whose code or name contains the keyword.
RECURSIVE Filter(_, _)
Filter(rows, kw_lower) ==
    IF Len(rows) = 0 THEN <<>>
    ELSE LET row == Head(rows)
             ts_code == Str(RowGet(row, JStr(S_ts_code), JStr(<<>>)))
             name == Str(RowGet(row, JStr(S_name), JStr(<<>>)))
             rest == Filter(Tail(rows), kw_lower)
         IN  IF Contains(kw_lower, lower(ts_code)) \/ Contains(kw_lower, lower(name))
             THEN <<row>> \o rest
             ELSE rest

\* Lines 236-264.
AfterSearch(res, keyword) ==
    IF ~IsNone(res.error) THEN Return([error |-> res.error, rows |-> <<>>])
    ELSE LET filtered == Filter(res.rows, lower(keyword))
         IN  Return([error |-> None,
                     rows |-> SubSeq(filtered, 1, Min(Len(filtered), MAX_ROWS))])

\* Lines 292-302.
AfterStockBasic(res, ts_code) ==
    IF ~IsNone(res.error) THEN Return([error |-> res.error, row |-> None])
    ELSE IF Len(res.rows) = 0
    THEN Return([error |-> Some(Err("domain", "not found", ts_code)), row |-> None])
    ELSE Return([error |-> None, row |-> Some(res.rows[1])])

\* a < b as sorted() evaluates it on two keys: defined between two strings
\* and between two numbers (bool is a number), a TypeError otherwise.
Comparable(a, b) ==
    \/ a.j = "string" /\ b.j = "string"
    \/ a.j \in {"number", "bool"} /\ b.j \in {"number", "bool"}

NumOf(a) == IF a.j = "bool" THEN (IF a.v THEN 1 ELSE 0) ELSE a.v

Less(a, b) == IF a.j = "string" THEN StrLess(a.v, b.v) ELSE NumOf(a) < NumOf(b)

\* lambda r: r.get("trade_date", "")
DateKey(r) == RowGet(r, JStr(S_trade_date), JStr(<<>>))

\* One step of a stable insertion sort: row goes after every sorted row whose
\* key is not greater.
RECURSIVE Insert(_, _)
Insert(sorted, row) ==
    IF Len(sorted) = 0 THEN <<row>>
    ELSE IF Less(DateKey(row), DateKey(Head(sorted))) THEN <<row>> \o sorted
    ELSE <<Head(sorted)>> \o Insert(Tail(sorted), row)

RECURSIVE StableSort(_)
StableSort(rows) ==
    IF Len(rows) = 0 THEN <<>>
    ELSE Insert(StableSort(SubSeq(rows, 1, Len(rows) - 1)), rows[Len(rows)])

\* sorted(rows, key=lambda r: r.get("trade_date", "")): a list of two or
\* more rows is sorted by comparing keys, and a comparison of two keys that
\* are not both strings or both numbers raises TypeError.
Sorted(rows) ==
    IF Len(rows) >= 2 /\ \E a, b \in 1..Len(rows) :
                            a # b /\ ~Comparable(DateKey(rows[a]), DateKey(rows[b]))
    THEN Raise("TypeError")
    ELSE Return(StableSort(rows))

\* Lines 345-365.
AfterDaily(res) ==
    IF ~IsNone(res.error) THEN Return([error |-> res.error, rows |-> <<>>])
    ELSE IF Len(res.rows) = 0
    THEN Return([error |-> Some(Err("domain", "no data in range", <<>>)), rows |-> <<>>])
    ELSE LET rows_sorted == Sorted(res.rows)
         IN  IF Raised(rows_sorted) THEN rows_sorted
             ELSE Return([error |-> None, rows |-> Get(rows_sorted.ret)])

(***************************************************************************)
(* Inputs: what callers pass and what the upstream may answer.             *)
(***************************************************************************)
Tasks == 1..NumTasks

EnvTokens == {None, Some(""), Some("tok")}
Tokens == {None, Some(""), Some("tok")}
ApiNames == {"trade_cal"}
Keywords == {None, Some(<<>>), Some(<<32, 9>>), Some(<<32, 65, 32>>)}
TsCodes == {None, Some(<<32>>), Some(<<65>>)}
Dates == {Some(<<32>>), Some(<<50>>)}

OkBody(fields, items) ==
    JObj(<< <<S_code, JNum(0)>>, <<S_msg, JNull>>,
            <<S_data, JObj(<< <<S_fields, fields>>, <<S_items, items>> >>)>> >>)

Ok(body) == [transport |-> "ok", body |-> body]
Failed(how) == [transport |-> how, body |-> JNull]

F3 == JArr(<<JStr(S_ts_code), JStr(S_name), JStr(S_trade_date)>>)
Item(a, b, c) == JArr(<<a, b, c>>)

\* The upstream outcomes of the system model: every failure the wrapper
\* classifies, and bodies of every shape the wrapper tells apart.
Responses ==
    { Failed("timeout"), Failed("HTTPStatusError"),
      Ok(JArr(<<>>)),
      Ok(JObj(<< <<S_code, JNum(1)>>, <<S_msg, JStr(<<65>>)>> >>)),
      Ok(OkBody(F3, JArr(<<Item(JStr(<<65>>), JStr(<<97>>), JStr(<<51>>)),
                           Item(JStr(<<66>>), JStr(<<98>>), JStr(<<50>>))>>))),
      Ok(OkBody(F3, JArr(<<Item(JStr(<<65>>), JNull, JNull),
                           Item(JStr(<<66>>), JStr(<<98>>), JStr(<<50>>))>>))) }

ClockReadings ==
    {k * _STOCK_BASIC_CACHE_TTL + d : k \in 0..MaxEpoch, d \in {-1, 0}} \cap Nat

(***************************************************************************)
(* Tasks.  The fields after exc are history: what the invocation did.      *)
(***************************************************************************)
IdleTask ==
    [pc |-> "idle",       \* idle, await (suspended in client.post), done, raised
     tool |-> "",
     api_name |-> "",
     args |-> <<>>,       \* the arguments as the caller passed them
     arg |-> <<>>,        \* the stripped keyword or ts_code
     token |-> None,      \* the token argument of _call_tushare
     now |-> None,        \* _get_stock_basic_all's reading of time.time()
     wres |-> None,       \* the envelope _call_tushare returned
     res |-> None,        \* the envelope the handler received
     result |-> None,     \* what the tool returned
     exc |-> None,        \* the exception that left the tool
     wcalls |-> 0,        \* _call_tushare invocations made
     posts |-> 0,         \* HTTP POSTs issued
     notoken |-> FALSE,   \* _call_tushare found no token
     invalid |-> FALSE,   \* the handler rejected its arguments
     gsba |-> "none",     \* _get_stock_basic_all: none, hit, miss
     issued_at |-> None,  \* the clock when the POST was issued
     expired |-> FALSE,   \* the cache was populated and too old at the check
     seen |-> 0]          \* the task whose refresh the cache held at the check

\* _call_tushare up to its first suspension: it returns at once without a
\* token, and otherwise suspends in client.post.
Enter(rec, api_name, token) ==
    IF NoToken(token)
    THEN [rec EXCEPT !.api_name = api_name, !.token = token, !.wcalls = @ + 1,
                     !.notoken = TRUE,
                     !.wres = Some(ConfigError(api_name)),
                     !.res = Some(ConfigError(api_name))]
    ELSE [rec EXCEPT !.api_name = api_name, !.token = token, !.wcalls = @ + 1,
                     !.posts = @ + 1, !.issued_at = Some(clock), !.pc = "await"]

\* The task when _call_tushare resumed it with outcome o: the handler has
\* the envelope, or the exception leaves the tool.
Resumed(rec, o) ==
    IF Raised(o) THEN [rec EXCEPT !.pc = "raised", !.exc = o.exc]
    ELSE [rec EXCEPT !.wres = o.ret, !.res = o.ret]

\* The task after its handler finished with outcome o.
Leave(rec, o) ==
    IF rec.pc = "raised" THEN rec
    ELSE IF Raised(o) THEN [rec EXCEPT !.pc = "raised", !.exc = o.exc]
    ELSE [rec EXCEPT !.pc = "done", !.result = o.ret]

Reject(rec, result) == [rec EXCEPT !.pc = "done", !.invalid = TRUE, !.result = Some(result)]

CacheUnchanged == UNCHANGED <<cache, cache_ts, cache_src>>

\* Lines 171-183 of _get_stock_basic_all, run by task t with envelope res.
Refresh(t, res, now, issued_at) ==
    /\ cache' = CacheAfter(res, now).rows
    /\ cache_ts' = CacheAfter(res, now).ts
    /\ cache_src' = IF IsNone(res.error)
                    THEN Some([rows |-> res.rows, now |-> now,
                               issued_at |-> issued_at, by |-> t])
                    ELSE cache_src

(***************************************************************************)
(* tushare_query.                                                          *)
(***************************************************************************)
Call_tushare_query(t, api_name, token) ==
    /\ tasks[t].pc = "idle"
    /\ LET rec == Enter([IdleTask EXCEPT !.tool = "tushare_query",
                                         !.args = <<Some(api_name), token>>],
                         api_name, token)
       IN  tasks' = [tasks EXCEPT ![t] =
                IF rec.pc = "await" THEN rec ELSE Leave(rec, Return(Get(rec.res)))]
    /\ CacheUnchanged
    /\ UNCHANGED <<env_token, clock, w_in, w_out>>

Resume_tushare_query(t, resp) ==
    /\ tasks[t].pc = "await" /\ tasks[t].tool = "tushare_query"
    /\ LET o == HandleResponse(tasks[t].api_name, resp)
       IN  tasks' = [tasks EXCEPT ![t] = Leave(Resumed(@, o), o)]
    /\ CacheUnchanged
    /\ UNCHANGED <<env_token, clock, w_in, w_out>>

(***************************************************************************)
(* search_stocks, through _get_stock_basic_all.                            *)
(***************************************************************************)
Call_search_stocks(t, kw) ==
    /\ tasks[t].pc = "idle"
    /\ LET keyword == strip(OrEmpty(kw))
           rec == [IdleTask EXCEPT !.tool = "search_stocks", !.args = <<kw>>,
                                   !.arg = keyword]
           now == clock
           g == [rec EXCEPT
                   !.now = Some(now),
                   !.expired = ~IsNone(cache) /\ ~IsNone(cache_ts)
                               /\ now - Get(cache_ts) >= _STOCK_BASIC_CACHE_TTL,
                   !.seen = IF IsNone(cache_src) THEN 0 ELSE Get(cache_src).by]
       IN  IF Len(keyword) = 0
           THEN /\ tasks' = [tasks EXCEPT ![t] =
                        Reject(rec, [error |-> Some(Err("validation", "keyword", <<>>)),
                                     rows |-> <<>>])]
                /\ CacheUnchanged
           ELSE IF CacheFresh(now)
           THEN /\ tasks' = [tasks EXCEPT ![t] =
                        Leave([g EXCEPT !.gsba = "hit", !.res = Some(CacheHit)],
                              AfterSearch(CacheHit, keyword))]
                /\ CacheUnchanged
           ELSE LET e == Enter([g EXCEPT !.gsba = "miss"], "stock_basic", None)
                IN  IF e.pc = "await"
                    THEN /\ tasks' = [tasks EXCEPT ![t] = e]
                         /\ CacheUnchanged
                    ELSE /\ tasks' = [tasks EXCEPT ![t] =
                                 Leave(e, AfterSearch(Get(e.res), keyword))]
                         /\ Refresh(t, Get(e.res), now, None)
    /\ UNCHANGED <<env_token, clock, w_in, w_out>>

Resume_search_stocks(t, resp) ==
    /\ tasks[t].pc = "await" /\ tasks[t].tool = "search_stocks"
    /\ LET o == HandleResponse("stock_basic", resp)
       IN  IF Raised(o)
           THEN /\ tasks' = [tasks EXCEPT ![t] = Resumed(@, o)]
                /\ CacheUnchanged
           ELSE /\ tasks' = [tasks EXCEPT ![t] =
                        Leave(Resumed(@, o), AfterSearch(Get(o.ret), tasks[t].arg))]
                /\ Refresh(t, Get(o.ret), Get(tasks[t].now), tasks[t].issued_at)
    /\ UNCHANGED <<env_token, clock, w_in, w_out>>

(***************************************************************************)
(* stock_basic.                                                            *)
(***************************************************************************)
Call_stock_basic(t, code) ==
    /\ tasks[t].pc = "idle"
    /\ LET ts_code == strip(OrEmpty(code))
           rec == [IdleTask EXCEPT !.tool = "stock_basic", !.args = <<code>>,
                                   !.arg = ts_code]
           e == Enter(rec, "stock_basic", None)
       IN  tasks' = [tasks EXCEPT ![t] =
                IF Len(ts_code) = 0
                THEN Reject(rec, [error |-> Some(Err("validation", "ts_code", <<>>)),
                                  row |-> None])
                ELSE IF e.pc = "await" THEN e
                ELSE Leave(e, AfterStockBasic(Get(e.res), ts_code))]
    /\ CacheUnchanged
    /\ UNCHANGED <<env_token, clock, w_in, w_out>>

Resume_stock_basic(t, resp) ==
    /\ tasks[t].pc = "await" /\ tasks[t].tool = "stock_basic"
    /\ LET o == HandleResponse("stock_basic", resp)
       IN  tasks' = [tasks EXCEPT ![t] =
                IF Raised(o) THEN Resumed(@, o)
                ELSE Leave(Resumed(@, o), AfterStockBasic(Get(o.ret), tasks[t].arg))]
    /\ CacheUnchanged
    /\ UNCHANGED <<env_token, clock, w_in, w_out>>

(***************************************************************************)
(* daily.                                                                  *)
(***************************************************************************)
Call_daily(t, code, sd, ed) ==
    /\ tasks[t].pc = "idle"
    /\ LET ts_code == strip(OrEmpty(code))
           start_date == strip(OrEmpty(sd))
           end_date == strip(OrEmpty(ed))
           rec == [IdleTask EXCEPT !.tool = "daily", !.args = <<code, sd, ed>>,
                                   !.arg = ts_code]
           e == Enter(rec, "daily", None)
       IN  tasks' = [tasks EXCEPT ![t] =
                IF Len(ts_code) = 0
                THEN Reject(rec, [error |-> Some(Err("validation", "ts_code", <<>>)),
                                  rows |-> <<>>])
                ELSE IF Len(start_date) = 0 \/ Len(end_date) = 0
                THEN Reject(rec, [error |-> Some(Err("validation", "dates", <<>>)),
                                  rows |-> <<>>])
                ELSE IF e.pc = "await" THEN e
                ELSE Leave(e, AfterDaily(Get(e.res)))]
    /\ CacheUnchanged
    /\ UNCHANGED <<env_token, clock, w_in, w_out>>

Resume_daily(t, resp) ==
    /\ tasks[t].pc = "await" /\ tasks[t].tool = "daily"
    /\ LET o == HandleResponse("daily", resp)
       IN  tasks' = [tasks EXCEPT ![t] =
                IF Raised(o) THEN Resumed(@, o)
                ELSE Leave(Resumed(@, o), AfterDaily(Get(o.ret)))]
    /\ CacheUnchanged
    /\ UNCHANGED <<env_token, clock, w_in, w_out>>

(***************************************************************************)
(* The environment: the caller takes a result, time passes.                *)
(***************************************************************************)
\* The invocation is over; the task slot serves the next one.  The history
\* fields that name it are cleared.
Finish(t) ==
    /\ tasks[t].pc \in {"done", "raised"}
    /\ tasks' = [u \in Tasks |->
            IF u = t THEN IdleTask
            ELSE [tasks[u] EXCEPT !.seen = IF @ = t THEN 0 ELSE @]]
    /\ cache_src' = IF ~IsNone(cache_src) /\ Get(cache_src).by = t
                    THEN Some([Get(cache_src) EXCEPT !.by = 0])
                    ELSE cache_src
    /\ UNCHANGED <<env_token, clock, cache, cache_ts, w_in, w_out>>

Tick ==
    /\ \E c \in ClockReadings : c > clock /\ clock' = c
    /\ UNCHANGED <<env_token, cache, cache_ts, tasks, cache_src, w_in, w_out>>

Init ==
    /\ env_token \in EnvTokens
    /\ clock = 0
    /\ cache = None
    /\ cache_ts = None
    /\ tasks = [t \in Tasks |-> IdleTask]
    /\ cache_src = None
    /\ w_in = None
    /\ w_out = None

Next ==
    \/ \E t \in Tasks, a \in ApiNames, k \in Tokens : Call_tushare_query(t, a, k)
    \/ \E t \in Tasks, r \in Responses : Resume_tushare_query(t, r)
    \/ \E t \in Tasks, k \in Keywords : Call_search_stocks(t, k)
    \/ \E t \in Tasks, r \in Responses : Resume_search_stocks(t, r)
    \/ \E t \in Tasks, c \in TsCodes : Call_stock_basic(t, c)
    \/ \E t \in Tasks, r \in Responses : Resume_stock_basic(t, r)
    \/ \E t \in Tasks, c \in TsCodes, sd \in Dates, ed \in Dates : Call_daily(t, c, sd, ed)
    \/ \E t \in Tasks, r \in Responses : Resume_daily(t, r)
    \/ \E t \in Tasks : Finish(t)
    \/ Tick

Spec == Init /\ [][Next]_vars

(***************************************************************************)
(* SpecWrapper: _call_tushare's handling of one upstream response, over    *)
(* every fields list and every list of items within the bounds, and over   *)
(* bodies of other shapes.                                                 *)
(***************************************************************************)
SeqsUpTo(S, n) == UNION {[1..k -> S] : k \in 0..n}

FieldPool == {JStr(S_ts_code), JStr(S_trade_date)}

\* An item of w values, each telling its position: first, then "2", "3", ...
ItemOf(w, first) ==
    JArr([k \in 1..w |-> IF k = 1 THEN first ELSE JStr(<<48 + k>>)])

\* Items shorter than, as long as and longer than every fields list.
ItemPool == {ItemOf(w, first) : w \in 0..(MaxFields + 1), first \in {JNull, JStr(<<49>>)}}

ListBodies ==
    {OkBody(JArr(f), JArr(i)) :
        f \in SeqsUpTo(FieldPool, MaxFields), i \in SeqsUpTo(ItemPool, MaxItems)}

\* Bodies that are not a list of fields and a list of item lists.
OtherBodies ==
    << JNull, JNum(5), JStr(<<65>>), JArr(<<>>),
       JObj(<<>>),
       JObj(<< <<S_code, JNum(2002)>>, <<S_msg, JStr(<<65>>)>> >>),
       JObj(<< <<S_code, JStr(<<48>>)>> >>),
       JObj(<< <<S_code, JBool(FALSE)>> >>),
       JObj(<< <<S_code, JNum(0)>> >>),
       JObj(<< <<S_code, JNum(0)>>, <<S_data, JNull>> >>),
       JObj(<< <<S_code, JNum(0)>>, <<S_data, JNum(0)>> >>),
       JObj(<< <<S_code, JNum(0)>>, <<S_data, JArr(<<JNum(1)>>)>> >>),
       JObj(<< <<S_code, JNum(0)>>, <<S_data, JStr(<<65>>)>> >>),
       OkBody(JNull, JArr(<<JArr(<<JNum(1)>>)>>)),
       OkBody(JNum(5), JArr(<<>>)),
       OkBody(JNum(5), JArr(<<JArr(<<JNum(1)>>)>>)),
       OkBody(JStr(<<65, 66>>), JArr(<<JArr(<<JNum(1)>>)>>)),
       OkBody(JArr(<<JArr(<<>>)>>), JArr(<<JArr(<<JNum(1)>>)>>)),
       OkBody(F3, JNull),
       OkBody(F3, JNum(5)),
       OkBody(F3, JStr(<<65>>)),
       OkBody(F3, JArr(<<JNum(5)>>)),
       OkBody(F3, JArr(<<JStr(<<65, 66>>)>>)),
       OkBody(F3, JArr(<<JNull>>)) >>

Failures == {"timeout", "ConnectError", "HTTPStatusError", "JSONDecodeError"}

InitWrapper ==
    /\ env_token = Some("tok")
    /\ clock = 0
    /\ cache = None
    /\ cache_ts = None
    /\ tasks = [t \in Tasks |-> IdleTask]
    /\ cache_src = None
    /\ w_out = None
    /\ \/ \E b \in ListBodies : w_in = Some(Ok(b))
       \/ \E i \in 1..Len(OtherBodies) : w_in = Some(Ok(OtherBodies[i]))
       \/ \E f \in Failures : w_in = Some(Failed(f))

\* The POST returned Get(w_in); _call_tushare runs to its end.
WrapperReturns ==
    /\ IsNone(w_out)
    /\ w_out' = Some(HandleResponse("daily", Get(w_in)))
    /\ UNCHANGED <<env_token, clock, cache, cache_ts, tasks, cache_src, w_in>>

NextWrapper == WrapperReturns

SpecWrapper == InitWrapper /\ [][NextWrapper]_vars

(***************************************************************************)
(* Properties.                                                             *)
(***************************************************************************)
TTL == _STOCK_BASIC_CACHE_TTL

\* No token: None or the empty string.
NoTokenGiven(o) == IsNone(o) \/ Get(o) = ""

\* None, empty, or nothing but whitespace.
Blank(o) ==
    IsNone(o) \/ \A i \in 1..Len(Get(o)) : Get(o)[i] \in (9..13) \cup (28..32)

Validating == {"search_stocks", "stock_basic", "daily"}
BlankInput(rec) ==
    rec.tool \in Validating /\ \E i \in 1..Len(rec.args) : Blank(rec.args[i])

\* Task t starts an invocation in this step.
Started(t) == tasks[t].pc = "idle" /\ tasks'[t].pc # "idle"

\* Task t starts a listing fetch (_get_stock_basic_all) in this step.
StartedFetch(t) == Started(t) /\ tasks'[t].gsba # "none"

Refreshed(rec) ==
    rec.pc = "done" /\ rec.gsba = "miss" /\ IsNone(Get(rec.wres).error)

\* C1: every tool invocation returns a mapping and never raises.
C1_NeverRaises ==
    \A t \in Tasks :
        /\ tasks[t].pc # "raised"
        /\ tasks[t].pc = "done" => ~IsNone(tasks[t].result)

\* C2 as claimed: of two listing fetches, the second started after the first
\* returned and their clock readings less than six hours apart, the second
\* returns the first's rows and issues no upstream call.
C2_AnyTwoCalls ==
    [][\A a, b \in Tasks :
          ( /\ a # b
            /\ tasks[a].pc = "done" /\ tasks[a].gsba # "none"
            /\ StartedFetch(b)
            /\ Get(tasks'[b].now) - Get(tasks[a].now) < TTL
            /\ Get(tasks[a].now) - Get(tasks'[b].now) < TTL )
          => /\ tasks'[b].gsba = "hit"
             /\ tasks'[b].wcalls = 0 /\ tasks'[b].posts = 0
             /\ Get(tasks'[b].res).rows = Get(tasks[a].res).rows]_vars

\* C2 amended: when the first fetch refreshed the cache, the cache still holds
\* that refresh as the second starts, and the second's clock reading is less
\* than six hours after the first's, the second returns the first's rows and
\* issues no upstream call.
C2_AfterRefresh ==
    [][\A a, b \in Tasks :
          ( /\ a # b
            /\ Refreshed(tasks[a])
            /\ ~IsNone(cache_src) /\ Get(cache_src).by = a
            /\ StartedFetch(b)
            /\ Get(tasks'[b].now) - Get(tasks[a].now) < TTL )
          => /\ tasks'[b].gsba = "hit"
             /\ tasks'[b].pc = "done"
             /\ tasks'[b].wcalls = 0 /\ tasks'[b].posts = 0
             /\ Get(tasks'[b].res).rows = Get(tasks[a].wres).rows]_vars

C2_Witness ==
    \E a, b \in Tasks :
        /\ a # b
        /\ Refreshed(tasks[a])
        /\ tasks[b].pc = "done" /\ tasks[b].gsba = "hit" /\ tasks[b].seen = a
        /\ Get(tasks[b].now) - Get(tasks[a].now) = TTL - 1
        /\ Len(Get(tasks[b].res).rows) > 0

\* C3: a refresh that fails leaves the cached rows and the cached timestamp
\* as they are, and _get_stock_basic_all returns the wrapper's envelope.
C3_FailedRefresh ==
    [][\A t \in Tasks :
          ( /\ tasks[t].pc \in {"idle", "await"}
            /\ tasks'[t].pc = "done"
            /\ tasks'[t].gsba = "miss"
            /\ ~IsNone(Get(tasks'[t].wres).error) )
          => /\ cache' = cache
             /\ cache_ts' = cache_ts
             /\ tasks'[t].res = tasks'[t].wres
             /\ Get(tasks'[t].res).rows = <<>>]_vars

\* A refresh failed while rows older than six hours were cached: they are
\* still there.
C3_Witness ==
    \E t \in Tasks :
        /\ tasks[t].pc = "done" /\ tasks[t].gsba = "miss" /\ tasks[t].expired
        /\ tasks[t].posts = 1
        /\ ~IsNone(Get(tasks[t].wres).error)
        /\ ~IsNone(cache) /\ Len(Get(cache)) > 0
        /\ Get(tasks[t].now) - Get(cache_ts) >= TTL

\* C4: _call_tushare without a token in the environment or in the call
\* returns the configuration error with no rows and no fields, issues no
\* POST, and the cache is as before.
C4_NoToken ==
    [][\A t \in Tasks :
          ( /\ tasks'[t].wcalls > tasks[t].wcalls
            /\ NoTokenGiven(env_token)
            /\ NoTokenGiven(tasks'[t].token) )
          => /\ ~IsNone(tasks'[t].wres)
             /\ ~IsNone(Get(tasks'[t].wres).error)
             /\ Get(Get(tasks'[t].wres).error).kind = "config"
             /\ Get(tasks'[t].wres).rows = <<>>
             /\ IsNone(Get(tasks'[t].wres).fields)
             /\ tasks'[t].posts = 0
             /\ tasks'[t].pc = "done"
             /\ cache' = cache /\ cache_ts' = cache_ts]_vars

\* search_stocks reached the wrapper with an empty token in the environment.
C4_Witness ==
    \E t \in Tasks :
        /\ tasks[t].pc = "done" /\ tasks[t].tool = "search_stocks"
        /\ tasks[t].wcalls = 1 /\ tasks[t].posts = 0
        /\ env_token = Some("")
        /\ ~IsNone(Get(tasks[t].result).error)

\* The response under test, when its data is a list of field names and a
\* list of item lists.
W_body == Get(w_in).body
W_data == DictGet(W_body, S_data, JNull)
W_fields == DictGet(W_data, S_fields, JNull).v
W_items == DictGet(W_data, S_items, JNull).v
W_env == Get(Get(w_out).ret)

IsListBody(resp) ==
    /\ resp.transport = "ok"
    /\ resp.body.j = "object"
    /\ DictGet(resp.body, S_code, JNull) = JNum(0)
    /\ LET data == DictGet(resp.body, S_data, JNull) IN
       /\ data.j = "object"
       /\ LET f == DictGet(data, S_fields, JNull)
              i == DictGet(data, S_items, JNull)
          IN  /\ f.j = "array" /\ \A k \in 1..Len(f.v) : f.v[k].j = "string"
              /\ i.j = "array" /\ \A k \in 1..Len(i.v) : i.v[k].j = "array"

W_Answered == ~IsNone(w_out) /\ IsListBody(Get(w_in))

\* C5 as claimed: for a response with code 0 the envelope has no error, as
\* many rows as items, and every row's keys are the fields list, whatever
\* the lengths of the items.
C5_KeysAreFields ==
    W_Answered =>
        /\ ~Raised(Get(w_out))
        /\ IsNone(W_env.error)
        /\ Len(W_env.rows) = Len(W_items)
        /\ \A i \in 1..Len(W_env.rows) :
              /\ DOMAIN W_env.rows[i] = {W_fields[k] : k \in 1..Len(W_fields)}
              /\ Cardinality(DOMAIN W_env.rows[i]) = Len(W_fields)

\* C5 amended: for a response with code 0 whose data is a list of field
\* names and a list of item lists, the envelope has no error, the fields
\* list as fields and as many rows as items; row i's keys are the first
\* min(len(fields), len(items[i])) field names, and each key maps to the
\* value at the last position of that name among them.
C5_KeysArePrefix ==
    W_Answered =>
        /\ ~Raised(Get(w_out))
        /\ IsNone(W_env.error)
        /\ W_env.fields = Some(JArr(W_fields))
        /\ Len(W_env.rows) = Len(W_items)
        /\ \A i \in 1..Len(W_env.rows) :
              LET item == W_items[i].v
                  m == IF Len(item) < Len(W_fields) THEN Len(item) ELSE Len(W_fields)
              IN  /\ DOMAIN W_env.rows[i] = {W_fields[k] : k \in 1..m}
                  /\ \A k \in 1..m :
                        (\A n \in (k + 1)..m : W_fields[n] # W_fields[k])
                        => W_env.rows[i][W_fields[k]] = item[k]

\* One item is shorter than the fields list and one is longer.
C5_Witness ==
    /\ W_Answered
    /\ \E i \in 1..Len(W_items) : Len(W_items[i].v) < Len(W_fields)
    /\ \E i \in 1..Len(W_items) : Len(W_items[i].v) > Len(W_fields)
    /\ \E i \in 1..Len(W_env.rows) : Cardinality(DOMAIN W_env.rows[i]) < Len(W_fields)

IsPermutation(a, b) ==
    /\ Len(a) = Len(b)
    /\ \E p \in [1..Len(a) -> 1..Len(a)] :
          /\ \A i, k \in 1..Len(a) : p[i] = p[k] => i = k
          /\ \A i \in 1..Len(a) : a[i] = b[p[i]]

\* C6: for a successful non-empty upstream answer, daily returns a
\* permutation of the upstream rows, non-decreasing in trade_date.
C6_SortedPermutation ==
    \A t \in Tasks :
        ( /\ tasks[t].tool = "daily"
          /\ ~IsNone(tasks[t].wres)
          /\ IsNone(Get(tasks[t].wres).error)
          /\ Len(Get(tasks[t].wres).rows) > 0 )
        => /\ tasks[t].pc = "done"
           /\ IsNone(Get(tasks[t].result).error)
           /\ IsPermutation(Get(tasks[t].result).rows, Get(tasks[t].wres).rows)
           /\ LET rows == Get(tasks[t].result).rows
              IN  \A i \in 1..(Len(rows) - 1) :
                     ~Less(DateKey(rows[i + 1]), DateKey(rows[i]))

\* C7: a handler given a blank required argument returns an error with no
\* rows (no row), calls neither the wrapper nor the listing fetch, issues no
\* POST, and the cache is as before.
C7_Validation ==
    [][\A t \in Tasks :
          (Started(t) /\ BlankInput(tasks'[t]))
          => /\ tasks'[t].pc = "done"
             /\ ~IsNone(Get(tasks'[t].result).error)
             /\ IF tasks'[t].tool = "stock_basic"
                THEN IsNone(Get(tasks'[t].result).row)
                ELSE Get(tasks'[t].result).rows = <<>>
             /\ tasks'[t].wcalls = 0 /\ tasks'[t].posts = 0
             /\ tasks'[t].gsba = "none"
             /\ cache' = cache /\ cache_ts' = cache_ts]_vars

\* A whitespace-only keyword was rejected while the cache was populated.
C7_Witness ==
    \E t \in Tasks :
        /\ tasks[t].pc = "done" /\ tasks[t].tool = "search_stocks"
        /\ tasks[t].args = <<Some(<<32, 9>>)>>
        /\ tasks[t].invalid
        /\ ~IsNone(cache)

\* C8: a listing fetch that finds the cache populated and six hours old or
\* older calls the wrapper once, which issues one POST, and returns the
\* wrapper's envelope, not the cached rows.
C8_Expired ==
    [][\A t \in Tasks :
          /\ ( /\ StartedFetch(t)
               /\ ~IsNone(cache) /\ ~IsNone(cache_ts)
               /\ Get(tasks'[t].now) - Get(cache_ts) >= TTL )
             => /\ tasks'[t].gsba = "miss"
                /\ tasks'[t].wcalls = 1
                /\ tasks'[t].posts = 1
                /\ tasks'[t].pc = "await"
          /\ ( /\ tasks[t].pc = "await" /\ tasks[t].expired
               /\ tasks'[t].pc # "await" )
             => /\ tasks'[t].wcalls = 1 /\ tasks'[t].posts = 1
                /\ tasks'[t].gsba = "miss"
                /\ tasks'[t].pc = "done" =>
                      /\ tasks'[t].res = tasks'[t].wres
                      /\ ~IsNone(Get(tasks'[t].res).error)
                         \/ ~IsNone(Get(tasks'[t].res).raw)]_vars

\* An expired cache was refreshed with one POST.
C8_Witness ==
    \E t \in Tasks :
        /\ tasks[t].pc = "done" /\ tasks[t].expired
        /\ tasks[t].wcalls = 1 /\ tasks[t].posts = 1
        /\ IsNone(Get(tasks[t].res).error)
        /\ cache_ts = tasks[t].now

\* C9: the cache is absent, or holds the rows and the timestamp of the
\* successful refresh that completed last; a fetch answered from the cache
\* returns that refresh's rows.
C9_CachePaired ==
    \/ IsNone(cache) /\ IsNone(cache_ts) /\ IsNone(cache_src)
    \/ /\ ~IsNone(cache) /\ ~IsNone(cache_ts) /\ ~IsNone(cache_src)
       /\ Get(cache) = Get(cache_src).rows
       /\ Get(cache_ts) = Get(cache_src).now

C9_LastWriter ==
    /\ []C9_CachePaired
    /\ [][\A t \in Tasks :
             (StartedFetch(t) /\ tasks'[t].gsba = "hit")
             => /\ ~IsNone(cache_src)
                /\ Get(tasks'[t].res).rows = Get(cache_src).rows]_vars

\* Two refreshes overlapped; the one that started first completed last, and
\* the cache holds its rows with its (older) timestamp.
C9_Witness ==
    \E a, b \in Tasks :
        /\ a # b
        /\ Refreshed(tasks[a]) /\ Refreshed(tasks[b])
        /\ Get(tasks[a].now) < Get(tasks[b].now)
        /\ ~IsNone(cache_src) /\ Get(cache_src).by = a
        /\ Get(tasks[a].wres).rows # Get(tasks[b].wres).rows

\* C10: a fetch answered from the cache returns rows whose upstream call was
\* issued less than six hours before the fetch's clock reading.
C10_ServedWithinTTL ==
    [][\A t \in Tasks :
          (StartedFetch(t) /\ tasks'[t].gsba = "hit")
          => /\ ~IsNone(cache_src)
             /\ Get(tasks'[t].res).rows = Get(cache_src).rows
             /\ ~IsNone(Get(cache_src).issued_at)
             /\ Get(tasks'[t].now) - Get(Get(cache_src).issued_at) < TTL]_vars

\* A fetch was answered, at a later clock reading, from another task's refresh.
C10_Witness ==
    \E a, b \in Tasks :
        /\ a # b
        /\ Refreshed(tasks[a])
        /\ tasks[b].pc = "done" /\ tasks[b].gsba = "hit" /\ tasks[b].seen = a
        /\ Get(tasks[b].now) > Get(tasks[a].now)
        /\ Get(tasks[a].issued_at) = Get(tasks[a].now)

====
